---- MODULE Spec2Model ----
(***************************************************************************)
(* The storage layer of trivy-db (package db: Init, Close, BatchUpdate,    *)
(* put, get, forEach, deleteBucket) and the composer ingestion run         *)
(* (VulnSrc.update / VulnSrc.walk) that writes through it.                 *)
(*                                                                         *)
(* A store is the bucket tree of one bolt file: a function from bucket     *)
(* paths (sequences of names, the root bucket first) to that bucket's      *)
(* plain keys, each key mapped to its stored bytes.  A nested bucket       *)
(* lives in the key space of its parent, so a name is either a plain key   *)
(* or a nested bucket of a given bucket, never both.                       *)
(***************************************************************************)
EXTENDS Integers, Sequences, FiniteSets, TLC

VARIABLES
    db,        \* the process-wide handle (var db *bolt.DB): Nil or a bolt.DB
    files,     \* the store file under each cache directory, with its committed bucket tree
    leaked,    \* the bolt.DB objects still open that db no longer refers to
    last,      \* the latest finished call: its arguments and what it returned
    calls,     \* each concurrent BatchUpdate caller: its fn, where it stands, its result
    collecting, \* bolt's db.batch: the callers of the batch still taking calls
    triggered, \* the batches whose timer has fired and that have not finished
    tx,        \* the one writable transaction: Nil, or its calls and working tree
    rd,        \* the read transaction of a get or forEach under way, or Nil
    hist,      \* the fns whose transaction committed, in commit order
    held,      \* the directories whose store file another process has locked
    waiting    \* the Init call that is inside bolt.Open, or Nil

vars == <<db, files, leaked, last, calls, collecting, triggered, tx, rd, hist, held, waiting>>
concVars == <<calls, collecting, triggered, tx, rd, hist>>
lockVars == <<held, waiting>>

\* ------------------------------------------------------------------ names
\* The byte strings used as bucket names, root specs and keys, each with
\* its bytes.
Names ==
    {"", "s", "s::", "s::a", "s::b", "t", "n", "k", "data-source",
     "php-security-advisories", "vulnerability-detail", "vulnerability-id",
     "CVE-", ".yaml", "CVE-1.yaml", "CVE-1", "CVE-2.yaml", "CVE-2", "CVE-9", "README.md"}

Bytes ==
    [x \in Names |->
        CASE x = "" -> <<>>
          [] x = "s" -> <<115>>
          [] x = "s::" -> <<115, 58, 58>>
          [] x = "s::a" -> <<115, 58, 58, 97>>
          [] x = "s::b" -> <<115, 58, 58, 98>>
          [] x = "t" -> <<116>>
          [] x = "n" -> <<110>>
          [] x = "k" -> <<107>>
          [] x = "data-source" -> <<100, 97, 116, 97, 45, 115, 111, 117, 114, 99, 101>>
          [] x = "php-security-advisories" -> <<112, 104, 112, 45, 115, 101, 99, 117, 114, 105, 116, 121, 45, 97, 100, 118, 105, 115, 111, 114, 105, 101, 115>>
          [] x = "vulnerability-detail" -> <<118, 117, 108, 110, 101, 114, 97, 98, 105, 108, 105, 116, 121, 45, 100, 101, 116, 97, 105, 108>>
          [] x = "vulnerability-id" -> <<118, 117, 108, 110, 101, 114, 97, 98, 105, 108, 105, 116, 121, 45, 105, 100>>
          [] x = "CVE-" -> <<67, 86, 69, 45>>
          [] x = ".yaml" -> <<46, 121, 97, 109, 108>>
          [] x = "CVE-1.yaml" -> <<67, 86, 69, 45, 49, 46, 121, 97, 109, 108>>
          [] x = "CVE-1" -> <<67, 86, 69, 45, 49>>
          [] x = "CVE-2.yaml" -> <<67, 86, 69, 45, 50, 46, 121, 97, 109, 108>>
          [] x = "CVE-2" -> <<67, 86, 69, 45, 50>>
          [] x = "CVE-9" -> <<67, 86, 69, 45, 57>>
          [] x = "README.md" -> <<82, 69, 65, 68, 77, 69, 46, 109, 100>>]

\* string(b): the name that has the bytes b
Str(b) == CHOOSE x \in Names : Bytes[x] = b

\* strings.Contains(s, "::")
ContainsDelimiter(x) ==
    \E i \in 1..(Len(Bytes[x]) - 1) : Bytes[x][i] = 58 /\ Bytes[x][i + 1] = 58

\* bytes.HasPrefix(k, prefix)
HasPrefix(k, prefix) ==
    /\ Len(Bytes[prefix]) <= Len(Bytes[k])
    /\ SubSeq(Bytes[k], 1, Len(Bytes[prefix])) = Bytes[prefix]

\* strings.HasSuffix(x, suffix)
HasSuffix(x, suffix) ==
    /\ Len(Bytes[suffix]) <= Len(Bytes[x])
    /\ SubSeq(Bytes[x], Len(Bytes[x]) - Len(Bytes[suffix]) + 1, Len(Bytes[x])) = Bytes[suffix]

\* strings.TrimSuffix(x, suffix)
TrimSuffix(x, suffix) ==
    IF HasSuffix(x, suffix)
    THEN Str(SubSeq(Bytes[x], 1, Len(Bytes[x]) - Len(Bytes[suffix])))
    ELSE x

\* bytes.Compare(a, b) < 0: the key order of a bolt cursor
RECURSIVE SeqLess(_, _)
SeqLess(a, b) ==
    IF b = <<>> THEN FALSE
    ELSE IF a = <<>> THEN TRUE
    ELSE IF Head(a) # Head(b) THEN Head(a) < Head(b)
    ELSE SeqLess(Tail(a), Tail(b))

BytesLess(x, y) == SeqLess(Bytes[x], Bytes[y])

\* ----------------------------------------------------------------- values
NoErr == "nil"
NilBytes == [nil |-> TRUE]    \* a nil []byte
EmptyBytes == [len |-> 0]     \* make([]byte, 0)

\* types.DataSource values; the zero value is what a failed or empty lookup yields
NoSource == [Name |-> "", URL |-> ""]
\* var source of package composer
ComposerSource == [Name |-> "PHP Security Advisories Database",
                   URL |-> "https://github.com/FriendsOfPHP/security-advisories"]
Sources == {[Name |-> "A", URL |-> "ua"], [Name |-> "B", URL |-> "ub"], ComposerSource}

\* json.Marshal: a channel has no JSON encoding; any other value is encoded
Unserializable == [chan |-> TRUE]
\* a json.Marshal that encodes whatever it gets
MarshalAnything(v) == [bytes |-> [json |-> v], err |-> NoErr]

Marshal(v) ==
    IF v = Unserializable
    THEN [bytes |-> NilBytes, err |-> "json: unsupported type"]
    ELSE [bytes |-> [json |-> v], err |-> NoErr]

\* a value whose JSON is a string, not an object
Text == [text |-> "x"]

\* json.Unmarshal into a types.DataSource: an object gives the fields it has of
\* Name and URL, JSON of another kind is an error
UnmarshalSource(b) ==
    IF b \in [json : Sources \cup {NoSource}]
    THEN [source |-> b.json, err |-> NoErr]
    ELSE IF b = [json |-> Text]
    THEN [source |-> NoSource, err |-> "json: cannot unmarshal"]
    ELSE [source |-> NoSource, err |-> NoErr]

\* ------------------------------------------------------------ bucket tree
EmptyStore == [p \in {} |-> <<>>]
EmptyBucket == [k \in {} |-> NilBytes]

\* tx.Bucket / Bucket.Bucket: nil unless the name is a nested bucket
HasBucket(s, p) == p \in DOMAIN s

\* the names of the root buckets
Roots(s) == {p[1] : p \in {q \in DOMAIN s : Len(q) = 1}}

\* the nested buckets of bucket p
SubBuckets(s, p) == {q[Len(q)] : q \in {r \in DOMAIN s : Len(r) = Len(p) + 1 /\ SubSeq(r, 1, Len(p)) = p}}

\* Bucket.Get: nil when the key is absent or names a nested bucket
BucketGet(s, p, key) == IF key \in DOMAIN s[p] THEN s[p][key] ELSE NilBytes

\* Bucket.CreateBucket in the place of CreateBucketIfNotExists: an existing bucket
\* is an error
CreateBucketStrict(s, parent, name) ==
    LET p == Append(parent, name) IN
    IF name = "" THEN [s |-> s, err |-> "bucket name required"]
    ELSE IF p \in DOMAIN s THEN [s |-> s, err |-> "bucket already exists"]
    ELSE IF parent # <<>> /\ name \in DOMAIN s[parent]
    THEN [s |-> s, err |-> "incompatible value"]
    ELSE [s |-> (p :> EmptyBucket) @@ s, err |-> NoErr]

\* Tx.CreateBucketIfNotExists / Bucket.CreateBucketIfNotExists
CreateBucketIfNotExists(s, parent, name) ==
    LET p == Append(parent, name) IN
    IF name = "" THEN [s |-> s, err |-> "bucket name required"]
    ELSE IF p \in DOMAIN s THEN [s |-> s, err |-> NoErr]
    ELSE IF parent # <<>> /\ name \in DOMAIN s[parent]
    THEN [s |-> s, err |-> "incompatible value"]
    ELSE [s |-> (p :> EmptyBucket) @@ s, err |-> NoErr]

\* Bucket.Put
BucketPut(s, p, key, bytes) ==
    IF key = "" THEN [s |-> s, err |-> "key required"]
    ELSE IF key \in SubBuckets(s, p) THEN [s |-> s, err |-> "incompatible value"]
    ELSE [s |-> [s EXCEPT ![p] = (key :> bytes) @@ s[p]], err |-> NoErr]

\* a Tx.DeleteBucket that leaves the nested buckets behind
DeleteBucketTopOnly(s, name) ==
    IF <<name>> \notin DOMAIN s THEN [s |-> s, err |-> "bucket not found"]
    ELSE [s |-> [p \in DOMAIN s \ {<<name>>} |-> s[p]], err |-> NoErr]

\* Tx.DeleteBucket: the bucket goes with everything below it
DeleteBucket(s, name) ==
    IF <<name>> \notin DOMAIN s THEN [s |-> s, err |-> "bucket not found"]
    ELSE [s |-> [p \in {q \in DOMAIN s : q[1] # name} |-> s[p]], err |-> NoErr]

\* ------------------------------------------------------------- operations
\* the bucket-creating loop of put: the root, then each nested bucket, stopping at
\* the first failure with the buckets made so far left in the transaction
RECURSIVE CreateChain(_, _, _)
CreateChain(s, parent, names) ==
    IF names = <<>> THEN [s |-> s, err |-> NoErr]
    ELSE LET r == CreateBucketIfNotExists(s, parent, Head(names)) IN
         IF r.err # NoErr THEN r
         ELSE CreateChain(r.s, Append(parent, Head(names)), Tail(names))

\* Config.put on the transaction's working tree s
put(s, bktNames, key, value) ==
    IF Len(bktNames) = 0 THEN [s |-> s, err |-> "empty bucket name"]
    ELSE LET c == CreateChain(s, <<>>, bktNames)
             v == Marshal(value)
         IN  IF c.err # NoErr THEN c
             ELSE IF v.err # NoErr THEN [s |-> c.s, err |-> v.err]
             ELSE BucketPut(c.s, bktNames, key, v.bytes)

\* the read-resolving loop of get and forEach: the innermost bucket's path, or
\* <<>> (nil) when a bucket of the chain is missing
RECURSIVE Descend(_, _, _)
Descend(s, p, names) ==
    IF names = <<>> THEN p
    ELSE IF ~HasBucket(s, Append(p, Head(names))) THEN <<>>
    ELSE Descend(s, Append(p, Head(names)), Tail(names))

\* get with a missing bucket reported as an error
getMissingIsError(s, bktNames, key) ==
    IF Len(bktNames) = 0
    THEN [value |-> NilBytes, err |-> "empty bucket name"]
    ELSE LET bkt == Descend(s, <<>>, bktNames) IN
         IF bkt = <<>> THEN [value |-> NilBytes, err |-> "bucket not found"]
         ELSE LET dbValue == BucketGet(s, bkt, key) IN
              [value |-> IF dbValue = NilBytes THEN EmptyBytes ELSE dbValue,
               err |-> NoErr]

\* the body of Config.get inside db.View, on the snapshot s
get(s, bktNames, key) ==
    IF Len(bktNames) = 0
    THEN [value |-> NilBytes, err |-> "empty bucket name"]
    ELSE LET bkt == Descend(s, <<>>, bktNames) IN
         IF bkt = <<>> THEN [value |-> NilBytes, err |-> NoErr]
         ELSE LET dbValue == BucketGet(s, bkt, key) IN
              [value |-> IF dbValue = NilBytes THEN EmptyBytes ELSE dbValue,
               err |-> NoErr]

dataSourceBucket == "data-source"

\* Config.PutDataSource
PutDataSource(s, bktName, source) == put(s, <<dataSourceBucket>>, bktName, source)

\* Config.PutAdvisoryDetail, Config.PutVulnerabilityDetail, Config.PutVulnerabilityID
PutAdvisoryDetail(s, vulnerabilityID, source, pkgName, advisory) ==
    put(s, <<source, pkgName>>, vulnerabilityID, advisory)

PutVulnerabilityDetail(s, vulnerabilityID, source, vuln) ==
    put(s, <<"vulnerability-detail", vulnerabilityID>>, source, vuln)

PutVulnerabilityID(s, vulnerabilityID) ==
    put(s, <<"vulnerability-id">>, vulnerabilityID, [marker |-> TRUE])

\* Config.getDataSource
getDataSource(s, bktName) ==
    IF ~HasBucket(s, <<dataSourceBucket>>) THEN [source |-> NoSource, err |-> NoErr]
    ELSE LET b == BucketGet(s, <<dataSourceBucket>>, bktName) IN
         IF b = NilBytes THEN [source |-> NoSource, err |-> NoErr]
         ELSE UnmarshalSource(b)

\* the keys of the root level in cursor order
RECURSIVE SortedNames(_)
SortedNames(S) ==
    IF S = {} THEN <<>>
    ELSE LET m == CHOOSE x \in S : \A y \in S \ {x} : BytesLess(x, y)
         IN  <<m>> \o SortedNames(S \ {m})

\* Cursor.Seek: the position of the first key >= prefix
RECURSIVE Seek(_, _, _)
Seek(keys, prefix, i) ==
    IF i > Len(keys) THEN i
    ELSE IF ~BytesLess(keys[i], prefix) THEN i
    ELSE Seek(keys, prefix, i + 1)

\* the cursor loop of forEach: from position i on while the key has the prefix
RECURSIVE ScanPrefix(_, _, _)
ScanPrefix(keys, prefix, i) ==
    IF i > Len(keys) \/ ~HasPrefix(keys[i], prefix) THEN <<>>
    ELSE <<keys[i]>> \o ScanPrefix(keys, prefix, i + 1)

\* rootBuckets of forEach
RootBuckets(s, rootBucket) ==
    IF ContainsDelimiter(rootBucket)
    THEN LET keys == SortedNames(Roots(s))
         IN  ScanPrefix(keys, rootBucket, Seek(keys, rootBucket, 1))
    ELSE <<rootBucket>>

\* Bucket.ForEach that keeps the entry a key already has in values
ForEachIntoFirstWins(values, s, bkt, source) ==
    [k \in DOMAIN values \cup DOMAIN s[bkt] \cup SubBuckets(s, bkt) |->
        IF k \in DOMAIN values THEN values[k]
        ELSE IF k \in DOMAIN s[bkt] THEN [Source |-> source, Content |-> s[bkt][k]]
        ELSE [Source |-> source, Content |-> EmptyBytes]]

\* Bucket.ForEach into values: every plain key with a copy of its bytes, and every
\* nested bucket's name with an empty content, tagged with source
ForEachInto(values, s, bkt, source) ==
    [k \in DOMAIN values \cup DOMAIN s[bkt] \cup SubBuckets(s, bkt) |->
        IF k \in DOMAIN s[bkt] THEN [Source |-> source, Content |-> s[bkt][k]]
        ELSE IF k \in SubBuckets(s, bkt) THEN [Source |-> source, Content |-> EmptyBytes]
        ELSE values[k]]

\* one turn of the loop that drops the source it looked up
ForEachRootUntagged(values, s, r, nestedBuckets) ==
    IF ~HasBucket(s, <<r>>) THEN values
    ELSE LET bkt == Descend(s, <<r>>, nestedBuckets)
         IN  IF bkt = <<>> THEN values ELSE ForEachInto(values, s, bkt, NoSource)

\* one turn of the loop that gives the root up when the lookup of its source fails
ForEachRootLookupFatal(values, s, r, nestedBuckets) ==
    IF ~HasBucket(s, <<r>>) THEN values
    ELSE IF getDataSource(s, r).err # NoErr THEN values
    ELSE LET source == getDataSource(s, r).source
             bkt == Descend(s, <<r>>, nestedBuckets)
         IN  IF bkt = <<>> THEN values ELSE ForEachInto(values, s, bkt, source)

\* one turn of the loop over rootBuckets in forEach
ForEachRoot(values, s, r, nestedBuckets) ==
    IF ~HasBucket(s, <<r>>) THEN values
    ELSE LET source == getDataSource(s, r).source
             bkt == Descend(s, <<r>>, nestedBuckets)
         IN  IF bkt = <<>> THEN values ELSE ForEachInto(values, s, bkt, source)

\* the loop over rootBuckets ended by the first root whose nested chain is missing
RECURSIVE ForEachRootsStopAtMissing(_, _, _, _)
ForEachRootsStopAtMissing(values, s, roots, nestedBuckets) ==
    IF roots = <<>> THEN values
    ELSE IF HasBucket(s, <<Head(roots)>>) /\ Descend(s, <<Head(roots)>>, nestedBuckets) = <<>>
    THEN values
    ELSE ForEachRootsStopAtMissing(ForEachRoot(values, s, Head(roots), nestedBuckets),
                                   s, Tail(roots), nestedBuckets)

RECURSIVE ForEachRoots(_, _, _, _)
ForEachRoots(values, s, roots, nestedBuckets) ==
    IF roots = <<>> THEN values
    ELSE ForEachRoots(ForEachRoot(values, s, Head(roots), nestedBuckets),
                      s, Tail(roots), nestedBuckets)

NoValues == [k \in {} |-> [Source |-> NoSource, Content |-> NilBytes]]

\* a forEach that scans a bare root bucket
forEachBareRoot(s, bktNames) ==
    IF Len(bktNames) < 1 THEN [values |-> NoValues, err |-> "bucket must be nested"]
    ELSE [values |-> ForEachRoots(NoValues, s, RootBuckets(s, bktNames[1]), Tail(bktNames)),
          err |-> NoErr]

\* Config.forEach on the snapshot s
forEach(s, bktNames) ==
    IF Len(bktNames) < 2 THEN [values |-> NoValues, err |-> "bucket must be nested"]
    ELSE [values |-> ForEachRoots(NoValues, s, RootBuckets(s, bktNames[1]), Tail(bktNames)),
          err |-> NoErr]

\* Config.deleteBucket inside db.Update: a failed fn rolls the transaction back
deleteBucket(s, bucketName) ==
    LET r == DeleteBucket(s, bucketName) IN
    IF r.err # NoErr THEN [s |-> s, err |-> r.err] ELSE r

\* --------------------------------------------------------------- handle
Nil == [nil |-> TRUE]
\* the store file of a directory: missing, or there with its committed bucket tree
Absent == [exists |-> FALSE, tree |-> EmptyStore]
File(tree) == [exists |-> TRUE, tree |-> tree]

\* the zero value of bolt.Options in the fields BoltOptions has (OpenFile is
\* "nil" or the name of the caller's hook); a nil *bolt.Options stands for
\* bolt.DefaultOptions, which sets none of them
BoltZeroOptions ==
    [Timeout |-> 0, NoGrowSync |-> FALSE, NoFreelistSync |-> FALSE, PreLoadFreelist |-> FALSE,
     ReadOnly |-> FALSE, MmapFlags |-> 0, InitialMmapSize |-> 0, PageSize |-> 0,
     NoSync |-> FALSE, OpenFile |-> "nil", Mlock |-> FALSE]

\* GetBoltOptions: the *bolt.Options handed to bolt.Open; the fields it does not
\* set keep their zero value
GetBoltOptions(options) ==
    IF options.Enable THEN [BoltZeroOptions EXCEPT !.ReadOnly = options.ReadOnly] ELSE Nil

\* what bolt.Open configures the store with, given boltOptions
BoltConfig(boltOptions) == IF boltOptions = Nil THEN BoltZeroOptions ELSE boltOptions

\* the number of plain keys in the tree, the measure of the file's size
RECURSIVE CountKeys(_, _)
CountKeys(s, P) ==
    IF P = {} THEN 0
    ELSE LET p == CHOOSE q \in P : TRUE IN Cardinality(DOMAIN s[p]) + CountKeys(s, P \ {p})

Entries(s) == CountKeys(s, DOMAIN s)

\* the smallest size bolt maps, in keys
MinMap == 2

\* bolt's mmapSize: the mapped size doubles until the data fits
RECURSIVE MapGrow(_, _)
MapGrow(size, n) == IF size > n THEN size ELSE MapGrow(2 * size, n)

\* the size mapped by bolt.Open: InitialMmapSize is never handed on, so it is what
\* the file holds at that time
MapSize(tree) == MapGrow(MinMap, Entries(tree))

\* a commit whose tree has outgrown the map re-maps the file (DB.allocate)
NeedsRemap(h, s) == Entries(s) >= h.mapped
Remapped(h, s) == IF NeedsRemap(h, s) THEN [h EXCEPT !.mapped = MapGrow(h.mapped, Entries(s))] ELSE h

\* the *bolt.DB that bolt.Open returns for the file of dir holding tree
Handle(dir, tree, boltOptions) ==
    [dir |-> dir, opened |-> TRUE, readOnly |-> BoltConfig(boltOptions).ReadOnly,
     mapped |-> MapSize(tree), config |-> BoltConfig(boltOptions)]

\* whether bolt.Open takes the file lock shared (read-only) or exclusive
OpensReadOnly(boltOptions) == boltOptions # Nil /\ boltOptions.ReadOnly

\* the bolt.DB objects of the process that are open
OpenHandles == leaked \cup (IF db # Nil /\ db.opened THEN {db} ELSE {})

\* flock: an exclusive lock conflicts with every holder, a shared one with an
\* exclusive holder; another process that holds the lock holds it exclusively
LockConflict(dir, readOnly) ==
    \/ \E h \in OpenHandles : h.dir = dir /\ (~readOnly \/ ~h.readOnly)
    \/ dir \in held

\* bolt's flock loop gives up with ErrTimeout once the timeout it was given, if
\* not zero, has passed
LockTimesOut(boltOptions) == BoltConfig(boltOptions).Timeout # 0

\* bolt.Open(path, 0600, boltOptions) once the lock is granted, under the
\* environment's outcome for this open: the handle, the file and the error
BoltOpen(dir, boltOptions, outcome) ==
    LET ro == OpensReadOnly(boltOptions) IN
    IF outcome = "err" \/ (ro /\ files[dir] = Absent)
    THEN [db |-> Nil, file |-> files[dir], err |-> "open failed"]
    ELSE [db |-> Handle(dir, files[dir].tree, boltOptions),
          file |-> IF files[dir] = Absent THEN File(EmptyStore) ELSE files[dir],
          err |-> NoErr]

\* the deferred function of Init without os.Remove: the second open finds the old
\* file
RecoverKeepFile(cacheDir, env) ==
    IF env.reopen = "err"
    THEN [db |-> Nil, assigned |-> TRUE, file |-> files[cacheDir], err |-> "open failed"]
    ELSE [db |-> Handle(cacheDir, files[cacheDir].tree, Nil),
          assigned |-> TRUE,
          file |-> IF files[cacheDir] = Absent THEN File(EmptyStore) ELSE files[cacheDir],
          err |-> NoErr]

\* the deferred function of Init once recover() has caught a fault: os.Remove, then
\* bolt.Open(dbPath, 0600, nil) on the path, where it creates a new file that
\* nobody has locked
Recover(cacheDir, env) ==
    IF env.remove = "err"
    THEN [db |-> db, assigned |-> FALSE, file |-> files[cacheDir], err |-> "remove failed"]
    ELSE IF env.reopen = "err"
    THEN [db |-> Nil, assigned |-> TRUE, file |-> Absent, err |-> "open failed"]
    ELSE [db |-> Handle(cacheDir, EmptyStore, Nil),
          assigned |-> TRUE,
          file |-> File(EmptyStore), err |-> NoErr]

\* Init(cacheDir, options) under the environment env: mkdir, the first open
\* ("ok", "err" or "fault", a fatal fault raised inside bolt.Open after it took
\* the lock), and, after a fault, os.Remove and the second open.  A lock held
\* elsewhere blocks the first open until the timeout handed to bolt.Open, if it
\* is not zero, has passed.
Init(cacheDir, options, env) ==
    LET boltOptions == GetBoltOptions(options)
        first == BoltOpen(cacheDir, boltOptions, env.open)
        \* r.assigned: whether "db, err = bolt.Open(...)" ran, dropping the old handle
        done(r) ==
            /\ db' = r.db
            /\ leaked' = leaked \cup (IF r.assigned /\ db # Nil /\ db.opened THEN {db} ELSE {})
            /\ files' = [files EXCEPT ![cacheDir] = r.file]
            /\ last' = [op |-> "Init", dir |-> cacheDir, options |-> options,
                        env |-> env, err |-> r.err, pre |-> files[cacheDir]]
            /\ waiting' = Nil
            /\ UNCHANGED <<concVars, held>>
    IN
    IF env.mkdir = "err"
    THEN done([db |-> db, assigned |-> FALSE, file |-> files[cacheDir], err |-> "failed to mkdir"])
    ELSE IF LockConflict(cacheDir, OpensReadOnly(boltOptions))
    THEN /\ LockTimesOut(boltOptions)
         /\ done([db |-> Nil, assigned |-> TRUE, file |-> files[cacheDir], err |-> "failed to open db"])
    ELSE IF env.open = "fault" THEN done(Recover(cacheDir, env))
    ELSE IF first.err # NoErr
    THEN done([db |-> Nil, assigned |-> TRUE, file |-> first.file, err |-> "failed to open db"])
    ELSE done([db |-> first.db, assigned |-> TRUE, file |-> first.file, err |-> NoErr])

\* Init is called and gets to the file lock in bolt.Open
InitCall(cacheDir, options, env) ==
    /\ waiting = Nil
    /\ waiting' = [dir |-> cacheDir, options |-> options, env |-> env]
    /\ UNCHANGED <<db, files, leaked, last, concVars, held>>

\* the Init that was called gets the lock, or gives up waiting, and returns
InitReturn ==
    /\ waiting # Nil
    /\ Init(waiting.dir, waiting.options, waiting.env)

\* another process opens the store of dir and keeps it open
ForeignOpen(dir) ==
    /\ dir \notin held
    /\ ~LockConflict(dir, FALSE)
    /\ held' = held \cup {dir}
    /\ files' = [files EXCEPT ![dir] = IF @ = Absent THEN File(EmptyStore) ELSE @]
    /\ UNCHANGED <<db, leaked, last, concVars, waiting>>

\* a DB.Close that refuses a handle closed before
BoltCloseOnce(h, outcome) ==
    IF ~h.opened THEN [db |-> h, err |-> "database not open"]
    ELSE [db |-> [h EXCEPT !.opened = FALSE],
          err |-> IF outcome = "err" THEN "close failed" ELSE NoErr]

\* bolt's DB.Close on the handle h: nothing to do when it is closed already,
\* else the handle is closed and the lock given up, whatever unmapping, unlocking
\* and closing the file report (outcome)
BoltClose(h, outcome) ==
    IF ~h.opened THEN [db |-> h, err |-> NoErr]
    ELSE [db |-> [h EXCEPT !.opened = FALSE],
          err |-> IF outcome = "err" THEN "close failed" ELSE NoErr]

\* Close()
Close(outcome) ==
    /\ LET r == IF db = Nil THEN [db |-> db, err |-> NoErr] ELSE BoltClose(db, outcome)
       IN  /\ db' = r.db
           /\ last' = [op |-> "Close", err |-> r.err, pre |-> db]
    /\ UNCHANGED <<lockVars, files, leaked, concVars>>

\* ------------------------------------------------- calls, one caller at a time
\* the committed tree of the file the handle is open on
Cur == files[db.dir].tree

\* one call of the fn handed to BatchUpdate: put and PutDataSource calls in order,
\* returning at the first error ("fail" is an error of fn's own, such as a file
\* that cannot be read)
RunOp(s, op) ==
    CASE op.kind = "put" -> put(s, op.chain, op.key, op.value)
      [] op.kind = "source" -> PutDataSource(s, op.bkt, op.source)
      [] op.kind = "advisory" -> PutAdvisoryDetail(s, op.id, op.source, op.pkg, op.value)
      [] op.kind = "detail" -> PutVulnerabilityDetail(s, op.id, op.source, op.value)
      [] op.kind = "vulnID" -> PutVulnerabilityID(s, op.id)
      [] op.kind = "fail" -> [s |-> s, err |-> "fn failed"]

RECURSIVE RunFn(_, _)
RunFn(s, fn) ==
    IF fn = <<>> THEN [s |-> s, err |-> NoErr]
    ELSE LET r == RunOp(s, Head(fn)) IN
         IF r.err # NoErr THEN r ELSE RunFn(r.s, Tail(fn))

\* a rollback that leaves the writes made so far in the file
RollbackKeepsWrites(s, partial) == partial

\* Tx.Rollback: what is committed after a transaction on s that got to partial and
\* failed
Rollback(s, partial) == s

\* bolt's DB.Update(fn) on the committed tree s: commit when fn returns nil, roll
\* back when it returns an error
Update(s, fn) ==
    LET r == RunFn(s, fn) IN
    IF r.err # NoErr THEN [s |-> Rollback(s, r.s), err |-> r.err] ELSE r

\* bolt's DB.Batch(fn) with no other caller: fn runs in a batch transaction, and
\* when it fails there it is run again on its own and that result is returned
Batch(s, fn) ==
    LET first == Update(s, fn) IN
    IF first.err # NoErr THEN Update(first.s, fn) ELSE first

\* ----------------------------------------------- the composer ingestion
PhpSecurityAdvisories == "php-security-advisories"

AdvisoryOp(id, src, pkg, value) ==
    [kind |-> "advisory", id |-> id, source |-> src, pkg |-> pkg, value |-> value]
DetailOp(id, src, value) == [kind |-> "detail", id |-> id, source |-> src, value |-> value]
VulnIDOp(id) == [kind |-> "vulnID", id |-> id]
SourceOp(bkt, src) == [kind |-> "source", bkt |-> bkt, source |-> src]
FailOp == [kind |-> "fail"]

\* a callback that takes every regular file for an advisory
WalkFuncAnyFile(info) ==
    IF info.err # NoErr THEN <<FailOp>>
    ELSE IF info.isDir THEN <<>>
    ELSE IF info.read # NoErr THEN <<FailOp>>
    ELSE IF info.yaml # NoErr THEN <<FailOp>>
    ELSE LET advisory == info.advisory
             vulnerabilityID == IF advisory.Cve = "" THEN TrimSuffix(info.name, ".yaml")
                                ELSE advisory.Cve
             a == [VulnerableVersions |-> advisory.Versions]
             vuln == [ID |-> vulnerabilityID, References |-> <<advisory.Link>>,
                      Title |-> advisory.Title]
         IN  <<[kind |-> "advisory", id |-> vulnerabilityID, source |-> "php-security-advisories",
                pkg |-> advisory.Reference, value |-> a],
               [kind |-> "detail", id |-> vulnerabilityID, source |-> "php-security-advisories",
                value |-> vuln],
               [kind |-> "vulnID", id |-> vulnerabilityID]>>

\* the writes the callback of filepath.Walk makes for one entry of the tree, a
\* failure ending the walk; an advisory here has one branch
WalkFunc(info) ==
    IF info.err # NoErr THEN <<FailOp>>
    ELSE IF info.isDir \/ ~HasPrefix(info.name, "CVE-") THEN <<>>
    ELSE IF info.read # NoErr THEN <<FailOp>>
    ELSE IF info.yaml # NoErr THEN <<FailOp>>
    ELSE LET advisory == info.advisory
             vulnerabilityID == IF advisory.Cve = "" THEN TrimSuffix(info.name, ".yaml")
                                ELSE advisory.Cve
             a == [VulnerableVersions |-> advisory.Versions]
             vuln == [ID |-> vulnerabilityID, References |-> <<advisory.Link>>,
                      Title |-> advisory.Title]
         IN  <<AdvisoryOp(vulnerabilityID, PhpSecurityAdvisories, advisory.Reference, a),
               DetailOp(vulnerabilityID, PhpSecurityAdvisories, vuln),
               VulnIDOp(vulnerabilityID)>>

\* VulnSrc.walk over the entries of the repository in the order Walk visits them
RECURSIVE walk(_)
walk(root) == IF root = <<>> THEN <<>> ELSE WalkFunc(Head(root)) \o walk(Tail(root))

\* the fn VulnSrc.update hands to BatchUpdate
update(repoPath) == <<SourceOp(PhpSecurityAdvisories, ComposerSource)>> \o walk(repoPath)

\* the check every bolt transaction starts with
BeginErr(writable) ==
    IF ~db.opened THEN "database not open"
    ELSE IF writable /\ db.readOnly THEN "database is in read-only mode"
    ELSE NoErr

MaxEntries == 3

\* Config.BatchUpdate(fn), called through a nil handle it panics
BatchUpdate(fn) ==
    /\ db # Nil
    /\ LET r == IF BeginErr(TRUE) # NoErr THEN [s |-> Cur, err |-> BeginErr(TRUE)]
                ELSE Batch(Cur, fn)
       IN  /\ Entries(r.s) <= MaxEntries
           /\ files' = [files EXCEPT ![db.dir] = File(r.s)]
           /\ db' = Remapped(db, r.s)
           /\ last' = [op |-> "BatchUpdate", fn |-> fn, err |-> r.err, pre |-> Cur]
    /\ UNCHANGED <<lockVars, leaked, concVars>>

\* VulnSrc.update(repoPath): one BatchUpdate with the fn of the whole run
Ingest(repoPath) ==
    /\ db # Nil
    /\ LET fn == update(repoPath)
           r == IF BeginErr(TRUE) # NoErr THEN [s |-> Cur, err |-> BeginErr(TRUE)]
                ELSE Batch(Cur, fn)
       IN  /\ files' = [files EXCEPT ![db.dir] = File(r.s)]
           /\ db' = Remapped(db, r.s)
           /\ last' = [op |-> "update", repo |-> repoPath, fn |-> fn,
                       err |-> IF r.err = NoErr THEN NoErr ELSE "batch update failed", pre |-> Cur]
    /\ UNCHANGED <<lockVars, leaked, concVars>>

\* the tree the db.View of Config.get leaves: tx.Bucket, Bucket.Bucket and
\* Bucket.Get only look up, and the read-only transaction is rolled back
getLeavesCreatingChain(s, bktNames, key) ==
    IF Len(bktNames) = 0 THEN s ELSE CreateChain(s, <<>>, bktNames).s
getLeaves(s, bktNames, key) == s

\* the tree the db.View of Config.forEach leaves: Cursor.Seek, Cursor.Next and
\* the lookups of getDataSource write nothing
forEachLeaves(s, bktNames) == s

\* Config.get(bktNames, key), called through a nil handle it panics
Get(bktNames, key) ==
    /\ db # Nil
    /\ LET r == IF BeginErr(FALSE) # NoErr THEN [value |-> NilBytes, err |-> BeginErr(FALSE)]
                ELSE get(Cur, bktNames, key)
       IN  /\ last' = [op |-> "get", chain |-> bktNames, key |-> key,
                       value |-> IF r.err # NoErr THEN NilBytes ELSE r.value,
                       err |-> r.err, pre |-> Cur]
           /\ files' = IF BeginErr(FALSE) # NoErr THEN files
                       ELSE [files EXCEPT ![db.dir] = File(getLeaves(Cur, bktNames, key))]
    /\ UNCHANGED <<lockVars, db, leaked, concVars>>

\* Config.forEach(bktNames): the length check comes before the handle is used
ForEach(bktNames) ==
    /\ Len(bktNames) < 2 \/ db # Nil
    /\ LET r == IF Len(bktNames) >= 2 /\ BeginErr(FALSE) # NoErr
                THEN [values |-> NoValues, err |-> BeginErr(FALSE)]
                ELSE forEach(IF db = Nil THEN EmptyStore ELSE Cur, bktNames)
       IN  /\ last' = [op |-> "forEach", chain |-> bktNames, values |-> r.values,
                       err |-> r.err, pre |-> IF db = Nil THEN EmptyStore ELSE Cur]
           /\ files' = IF Len(bktNames) < 2 \/ BeginErr(FALSE) # NoErr THEN files
                       ELSE [files EXCEPT ![db.dir] = File(forEachLeaves(Cur, bktNames))]
    /\ UNCHANGED <<lockVars, db, leaked, concVars>>

\* Config.deleteBucket(bucketName)
DeleteBucketCall(bucketName) ==
    /\ db # Nil
    /\ LET r == IF BeginErr(TRUE) # NoErr THEN [s |-> Cur, err |-> BeginErr(TRUE)]
                ELSE deleteBucket(Cur, bucketName)
       IN  /\ files' = [files EXCEPT ![db.dir] = File(r.s)]
           /\ last' = [op |-> "deleteBucket", name |-> bucketName, err |-> r.err, pre |-> Cur]
    /\ UNCHANGED <<lockVars, db, leaked, concVars>>

\* ------------------------------------------- calls of concurrent callers
NumCallers == 2
Callers == 1..NumCallers
IdleCall == [st |-> "idle", fn |-> <<>>, err |-> NoErr, base |-> EmptyStore, with |-> <<>>]

\* DB.Batch(fn) up to the wait on errCh: the call joins the batch taking calls.
\* Callers are interchangeable, they are numbered in the order they call.
Submit(c, fn) ==
    /\ calls[c].st = "idle"
    /\ \A d \in Callers : d < c => calls[d].st # "idle"
    /\ calls' = [calls EXCEPT ![c] = [IdleCall EXCEPT !.st = "waiting", !.fn = fn]]
    /\ collecting' = Append(collecting, c)
    /\ UNCHANGED <<lockVars, db, files, leaked, last, triggered, tx, rd, hist>>

\* batch.trigger when the batch's timer fires: db.batch takes no more calls
Trigger ==
    /\ collecting # <<>>
    /\ triggered' = triggered \cup {collecting}
    /\ calls' = [c \in Callers |->
                    IF \E j \in 1..Len(collecting) : collecting[j] = c
                    THEN [calls[c] EXCEPT !.with = collecting]
                    ELSE calls[c]]
    /\ collecting' = <<>>
    /\ UNCHANGED <<lockVars, db, files, leaked, last, tx, rd, hist>>

\* db.Update begins the writable transaction, of a triggered batch (batch.run) or of
\* a call told to run solo (the end of DB.Batch); there is one writer at a time
TxBegin(batch, solo) ==
    /\ tx = Nil
    /\ IF solo THEN Len(batch) = 1 /\ calls[batch[1]].st = "solo" ELSE batch \in triggered
    /\ tx' = [batch |-> batch, solo |-> solo, i |-> 1, s |-> Cur]
    /\ UNCHANGED <<lockVars, db, files, leaked, last, calls, collecting, triggered, rd, hist>>

\* b.calls[failIdx], b.calls = b.calls[len-1], b.calls[:len-1]
RemoveCall(batch, failIdx) ==
    SubSeq([batch EXCEPT ![failIdx] = batch[Len(batch)]], 1, Len(batch) - 1)

\* a batch whose failure is handed to every one of its callers
OnFailureAllFail(t, c, err) ==
    [d \in Callers |->
        IF \E j \in 1..Len(t.batch) : t.batch[j] = d
        THEN [calls[d] EXCEPT !.st = "returned", !.err = err, !.base = Cur]
        ELSE calls[d]]

\* what the callers are told when the fn of call c fails with err in transaction
\* t: in a batch c.err <- trySolo and the others wait on, run solo the error is
\* what DB.Batch returns
OnFailure(t, c, err) ==
    [calls EXCEPT ![c] = IF t.solo
                         THEN [@ EXCEPT !.st = "returned", !.err = err, !.base = Cur]
                         ELSE [@ EXCEPT !.st = "solo"]]

\* the transaction runs the fn of its next call.  An error rolls the transaction
\* back: a batch drops the call, tells its caller to run solo and tries the rest
\* again; a solo call returns the error.
TxCall ==
    /\ tx # Nil
    /\ tx.i <= Len(tx.batch)
    /\ LET c == tx.batch[tx.i]
           r == RunFn(tx.s, calls[c].fn)
           rest == RemoveCall(tx.batch, tx.i)
       IN  IF r.err = NoErr
           THEN /\ tx' = [tx EXCEPT !.s = r.s, !.i = tx.i + 1]
                /\ UNCHANGED <<files, calls, triggered>>
           ELSE /\ tx' = Nil
                /\ files' = [files EXCEPT ![db.dir] = File(Rollback(Cur, r.s))]
                /\ calls' = OnFailure(tx, c, r.err)
                /\ triggered' = IF tx.solo THEN triggered
                                ELSE (triggered \ {tx.batch}) \cup (IF rest = <<>> THEN {} ELSE {rest})
    /\ UNCHANGED <<lockVars, db, leaked, last, collecting, rd, hist>>

\* every fn of the transaction returned nil: it commits and every caller gets nil.
\* A commit that has to re-map the file takes mmaplock, which every open read
\* transaction holds shared: it waits until they are closed.
TxCommit ==
    /\ tx # Nil
    /\ tx.i > Len(tx.batch)
    /\ NeedsRemap(db, tx.s) => rd = Nil
    /\ files' = [files EXCEPT ![db.dir] = File(tx.s)]
    /\ db' = Remapped(db, tx.s)
    /\ calls' = [c \in Callers |->
                    IF \E j \in 1..Len(tx.batch) : tx.batch[j] = c
                    THEN [calls[c] EXCEPT !.st = "returned", !.err = NoErr, !.base = Cur]
                    ELSE calls[c]]
    /\ hist' = Append(hist, [j \in 1..Len(tx.batch) |->
                                [c |-> tx.batch[j], fn |-> calls[tx.batch[j]].fn]])
    /\ triggered' = IF tx.solo THEN triggered ELSE triggered \ {tx.batch}
    /\ tx' = Nil
    /\ UNCHANGED <<lockVars, leaked, last, collecting, rd>>

\* what a read transaction sees from db.View on: the tree committed when it began
Snapshot == Cur

\* db.View begins the read transaction of a get or a forEach
ReadBegin(op, bktNames, key) ==
    /\ rd = Nil
    /\ rd' = [op |-> op, chain |-> bktNames, key |-> key, snap |-> Snapshot,
              at |-> Len(hist), done |-> FALSE, res |-> Nil]
    /\ UNCHANGED <<lockVars, db, files, leaked, last, calls, collecting, triggered, tx, hist>>

\* a read whose body looks at the file as it is when the body runs
ReadViewLive(r) == Cur

\* the tree the body of read transaction r works on
ReadView(r) == r.snap

\* what the read r returns from the tree s
ReadOn(s, r) == IF r.op = "get" THEN get(s, r.chain, r.key) ELSE forEach(s, r.chain)

\* the func(tx) of the read runs on what its transaction sees
ReadBody ==
    /\ rd # Nil
    /\ ~rd.done
    /\ rd' = [rd EXCEPT !.done = TRUE, !.res = ReadOn(ReadView(rd), rd)]
    /\ UNCHANGED <<lockVars, db, files, leaked, last, calls, collecting, triggered, tx, hist>>

\* db.View rolls the read transaction back and the call returns
ReadEnd ==
    /\ rd # Nil
    /\ rd.done
    /\ rd' = Nil
    /\ UNCHANGED <<lockVars, db, files, leaked, last, calls, collecting, triggered, tx, hist>>

\* ------------------------------------------------------------ the inputs
Dirs == {"d1", "d2"}
\* BoltOptions{}
DefaultOptions == [f \in DOMAIN BoltZeroOptions \cup {"Enable"} |->
                      IF f = "Enable" THEN FALSE ELSE BoltZeroOptions[f]]
\* BoltOptions with every field set
AllOptions ==
    [Timeout |-> 1, NoGrowSync |-> TRUE, NoFreelistSync |-> TRUE, PreLoadFreelist |-> TRUE,
     ReadOnly |-> TRUE, MmapFlags |-> 1, InitialMmapSize |-> 4, PageSize |-> 1,
     NoSync |-> TRUE, OpenFile |-> "hook", Mlock |-> TRUE, Enable |-> TRUE]
\* the options given with the fields F set and the others zero
WithSet(F) == [f \in DOMAIN AllOptions |-> IF f \in F THEN AllOptions[f] ELSE DefaultOptions[f]]
OkEnv == [mkdir |-> "ok", open |-> "ok", remove |-> "ok", reopen |-> "ok"]

Keys == {"k", "n"}
V1 == [Adv |-> "v1"]
V2 == [Adv |-> "v2"]
SourceA == [Name |-> "A", URL |-> "ua"]
SourceB == [Name |-> "B", URL |-> "ub"]
GetChains == {<<"s::a", "n">>, <<"s::b", "n">>, <<"t">>, <<"t", "n">>, <<"t", "n", "n">>, <<>>}
ForEachChains == {<<"s::", "n">>, <<"s::a", "n">>, <<"s", "n">>, <<"t", "n">>,
                  <<"t", "n", "n">>, <<"t">>, <<>>}
BucketNames == {"s::a", "s::b", "t", "n"}

PutOp(chain, key, value) == [kind |-> "put", chain |-> chain, key |-> key, value |-> value]

\* the entries of an advisory repository
RawAdvisory(cve, title, reference) ==
    [Cve |-> cve, Title |-> title, Link |-> "link", Reference |-> reference, Versions |-> <<"<1.0">>]
NoAdvisory == RawAdvisory("", "", "")
Entry(name, isDir, advisory) ==
    [name |-> name, isDir |-> isDir, err |-> NoErr, read |-> NoErr, yaml |-> NoErr,
     advisory |-> advisory]
Unreadable(name) == [Entry(name, FALSE, NoAdvisory) EXCEPT !.read = "read error"]

\* a repository whose second advisory cannot be read
RepoBad == <<Entry("CVE-2", TRUE, NoAdvisory),
             Entry("README.md", FALSE, NoAdvisory),
             Entry("CVE-1.yaml", FALSE, RawAdvisory("", "t1", "composer://p")),
             Unreadable("CVE-2.yaml")>>

Puts == {PutOp(<<"s::a", "n">>, "k", V1), PutOp(<<"s::a", "n">>, "k", V2),
         PutOp(<<"s::a">>, "k", V1),
         PutOp(<<"s::b", "n">>, "k", V1), PutOp(<<"s::b", "n">>, "k", V2),
         PutOp(<<"s::b", "n">>, "n", V1),
         PutOp(<<"t">>, "n", V1),
         PutOp(<<"t", "n">>, "k", V1),
         PutOp(<<dataSourceBucket>>, "s::a", Text)}
BadPuts == {PutOp(<<>>, "k", V1),
            PutOp(<<"t", "n">>, "k", Unserializable),
            PutOp(<<"t", "n">>, "", V1)}
SourcePuts == {SourceOp("s::a", SourceA), SourceOp("s::b", SourceB)}
Ops == Puts \cup BadPuts \cup SourcePuts

\* the fns of one caller at a time: one write, or two writes to one bucket chain
Fns == {<<op>> : op \in Ops}
       \cup {f \in {<<a, b>> : a \in Puts, b \in Puts} : f[1].chain = f[2].chain}
       \cup {<<PutOp(<<"t", "n">>, "k", V1), PutOp(<<"s::b", "n">>, "n", Unserializable)>>,
             <<SourceOp("s::a", SourceA), PutOp(<<"s::a", "n">>, "k", V1), FailOp>>,
             <<PutOp(<<"t", "n">>, "k", V1), PutOp(<<>>, "k", V1)>>,
             update(RepoBad)}

\* ------------------------------------------------------ the specification
Start ==
    /\ db = Nil
    /\ files = [d \in Dirs |-> Absent]
    /\ leaked = {}
    /\ last = [op |-> "none"]
    /\ calls = [c \in Callers |-> IdleCall]
    /\ collecting = <<>>
    /\ triggered = {}
    /\ tx = Nil
    /\ rd = Nil
    /\ hist = <<>>
    /\ held = {}
    /\ waiting = Nil

Next ==
    \/ Init("d1", DefaultOptions, OkEnv)
    \/ Close("ok")
    \/ \E fn \in Fns : BatchUpdate(fn)
    \/ \E c \in GetChains, k \in Keys : Get(c, k)
    \/ \E c \in ForEachChains : ForEach(c)
    \/ \E b \in BucketNames : DeleteBucketCall(b)

Spec == Start /\ [][Next]_vars

\* the handle's life: Init and Close with every option set, directory and
\* environment outcome, and a write between them
OptionSets ==
    {WithSet(F \cup E) : F \in {{}, {"ReadOnly"}, {"Timeout"}, {"InitialMmapSize"},
                                DOMAIN BoltZeroOptions},
                         E \in {{}, {"Enable"}}}
Envs == {[mkdir |-> "err", open |-> "ok", remove |-> "ok", reopen |-> "ok"],
         [mkdir |-> "ok", open |-> "ok", remove |-> "ok", reopen |-> "ok"],
         [mkdir |-> "ok", open |-> "err", remove |-> "ok", reopen |-> "ok"],
         [mkdir |-> "ok", open |-> "fault", remove |-> "err", reopen |-> "ok"],
         [mkdir |-> "ok", open |-> "fault", remove |-> "ok", reopen |-> "err"],
         [mkdir |-> "ok", open |-> "fault", remove |-> "ok", reopen |-> "ok"]}

NextInit ==
    \/ \E d \in Dirs, o \in OptionSets, e \in Envs : Init(d, o, e)
    \/ \E outcome \in {"ok", "err"} : Close(outcome)
    \/ BatchUpdate(<<PutOp(<<"t">>, "n", V1)>>)
    \/ \E k \in Keys : Get(<<"t">>, k)

SpecInit == Start /\ [][NextInit]_vars

\* composer ingestion runs over repositories of up to MaxFiles entries, and reads
\* of what they stored
MaxFiles == 2
RepoEntries == {Entry("CVE-2", TRUE, NoAdvisory),
                Entry("README.md", FALSE, RawAdvisory("", "t0", "composer://p")),
                Entry("CVE-1.yaml", FALSE, RawAdvisory("", "t1", "composer://p")),
                Entry("CVE-2.yaml", FALSE, RawAdvisory("CVE-9", "t9", "composer://p")),
                Unreadable("CVE-2.yaml")}
Repos == UNION {[1..n -> RepoEntries] : n \in 1..MaxFiles}

NextIngest ==
    \/ Init("d1", DefaultOptions, OkEnv)
    \/ \E repo \in Repos : Ingest(repo)
    \/ \E id \in {"CVE-1", "CVE-9"} : Get(<<"vulnerability-id">>, id)
    \/ ForEach(<<PhpSecurityAdvisories, "composer://p">>)

SpecIngest == Start /\ [][NextIngest]_vars

\* Init calls that may have to wait for the file lock of a store that another
\* process has opened and never closes.  An Init that can return does return.
LockOptions == {WithSet(F) : F \in {{}, {"Timeout"}, {"Enable"}, {"Enable", "Timeout"},
                                     {"Enable", "ReadOnly", "Timeout"}}}
LockEnvs == {e \in Envs : e.open # "fault"}

NextLock ==
    \/ \E d \in Dirs : ForeignOpen(d)
    \/ \E d \in Dirs, o \in LockOptions, e \in LockEnvs : InitCall(d, o, e)
    \/ InitReturn
    \/ Close("ok")

SpecLock == Start /\ [][NextLock]_vars /\ WF_vars(InitReturn)

\* concurrent BatchUpdate callers and a reader on the store that Init has opened
F1 == <<PutOp(<<"t", "n">>, "k", V1), PutOp(<<"s::a", "n">>, "k", V1)>>
F2 == <<PutOp(<<"t", "n">>, "k", V2)>>
BatchFns == {F1, F2, update(RepoBad)}

StartBatch ==
    /\ db = Handle("d1", EmptyStore, Nil)
    /\ files = [d \in Dirs |-> IF d = "d1" THEN File(EmptyStore) ELSE Absent]
    /\ leaked = {}
    /\ last = [op |-> "Init", dir |-> "d1", options |-> DefaultOptions, env |-> OkEnv,
               err |-> NoErr, pre |-> Absent]
    /\ calls = [c \in Callers |-> IdleCall]
    /\ collecting = <<>>
    /\ triggered = {}
    /\ tx = Nil
    /\ rd = Nil
    /\ hist = <<>>
    /\ held = {}
    /\ waiting = Nil

NextBatch ==
    \/ \E c \in Callers, fn \in BatchFns : Submit(c, fn)
    \/ Trigger
    \/ \E b \in triggered : TxBegin(b, FALSE)
    \/ \E c \in Callers : TxBegin(<<c>>, TRUE)
    \/ TxCall
    \/ TxCommit
    \/ ReadBegin("get", <<"t", "n">>, "k")
    \/ ReadBegin("forEach", <<"s::", "n">>, "")
    \/ ReadBody
    \/ ReadEnd

SpecBatch == StartBatch /\ [][NextBatch]_vars

\* --------------------------------------------- what a stored tree holds
\* the bucket paths a chain names, outermost first
Prefixes(chain) == {SubSeq(chain, 1, i) : i \in 1..Len(chain)}

\* no bucket is missing along the chain
ChainExists(s, chain) == chain # <<>> /\ Prefixes(chain) \subseteq DOMAIN s

\* the names a bucket holds: its plain keys and its nested buckets
Held(s, p) == DOMAIN s[p] \cup SubBuckets(s, p)

\* what a scan reports for name k of bucket p
ContentAt(s, p, k) == IF k \in DOMAIN s[p] THEN s[p][k] ELSE EmptyBytes

\* the provenance registered for root bucket r
SourceAt(s, r) ==
    IF /\ <<dataSourceBucket>> \in DOMAIN s
       /\ r \in DOMAIN s[<<dataSourceBucket>>]
       /\ s[<<dataSourceBucket>>][r] \in [json : Sources]
    THEN s[<<dataSourceBucket>>][r].json
    ELSE NoSource

\* the root buckets a root spec stands for
Matched(s, rootSpec) ==
    {r \in Roots(s) : IF ContainsDelimiter(rootSpec) THEN HasPrefix(r, rootSpec) ELSE r = rootSpec}

\* the matched roots that have the whole nested chain
Scanned(s, chain) == {r \in Matched(s, chain[1]) : ChainExists(s, <<r>> \o Tail(chain))}

\* a finished call of the open store
OpenCall(op) == last.op = op /\ db # Nil /\ db.opened

\* an empty result of get
IsEmpty(value) == value \in {NilBytes, EmptyBytes}

\* ------------------------------------------- what the commits amount to
\* the tree after the fns of one committed transaction ran on s, each once
RECURSIVE RunBatch(_, _)
RunBatch(s, b) == IF b = <<>> THEN s ELSE RunBatch(RunFn(s, Head(b).fn).s, Tail(b))

\* the tree after the commits h, in their order, on the empty store
RECURSIVE Replay(_)
Replay(h) ==
    IF h = <<>> THEN EmptyStore
    ELSE RunBatch(Replay(SubSeq(h, 1, Len(h) - 1)), h[Len(h)])

\* the committed tree when the first n commits were made
CommittedAt(n) == Replay(SubSeq(hist, 1, n))

\* the places of caller c in the commits
Commits(c) == {ij \in {<<i, j>> : i \in 1..Len(hist), j \in 1..NumCallers} :
                  ij[2] <= Len(hist[ij[1]]) /\ hist[ij[1]][ij[2]].c = c}

\* a read whose body has run
ReadDone(op) == rd # Nil /\ rd.done /\ rd.op = op

\* -------------------------------------------------------------- claims
\* C1: a BatchUpdate(fn) whose fn makes some of its writes and then returns an
\* error returns an error, and the committed store is the store before the call:
\* no record, data-source entry or bucket of the fn stays, as for the composer
\* run that fails on a file after PutDataSource and earlier records.
C1_FailedBatchCommitsNothing ==
    (last.op = "BatchUpdate" /\ RunFn(last.pre, last.fn).err # NoErr)
    => (last.err # NoErr /\ Cur = last.pre)

\* the composer run wrote the data source and one advisory, failed on the next
\* file, and BatchUpdate has returned
C1_Witness ==
    /\ OpenCall("BatchUpdate")
    /\ last.fn = update(RepoBad)
    /\ last.err # NoErr
    /\ <<"vulnerability-id">> \in DOMAIN RunFn(last.pre, last.fn).s
    /\ <<dataSourceBucket>> \in DOMAIN RunFn(last.pre, last.fn).s
    /\ Cur = last.pre

\* C2: a get returns what the batches committed before it was issued wrote to its
\* key, all of them (the last such write wins), and nothing of a batch that
\* commits after the get was issued.
C2_WriteThenReadIsolation ==
    ReadDone("get") => rd.res = get(CommittedAt(rd.at), rd.chain, rd.key)

\* a get issued between two commits that wrote its key returned the value of the
\* first after the second had committed
C2_Witness ==
    /\ ReadDone("get")
    /\ rd.at >= 1
    /\ Len(hist) > rd.at
    /\ ~IsEmpty(rd.res.value)
    /\ ~IsEmpty(get(Cur, rd.chain, rd.key).value)
    /\ get(Cur, rd.chain, rd.key).value # rd.res.value

\* a read returns what one committed state of the store holds: of every batch all
\* the writes or none
ReadsCommittedSnapshot ==
    (rd # Nil /\ rd.done) => \E n \in 0..Len(hist) : rd.res = ReadOn(CommittedAt(n), rd)

\* a writer that is ready to commit can commit whatever read is open
ReadsNeverBlockCommit ==
    (tx # Nil /\ tx.i > Len(tx.batch) /\ rd # Nil) => ENABLED TxCommit

\* C3: under any interleaving of reads with BatchUpdate calls in flight a get or
\* forEach observes a committed snapshot, of every batch all writes or none, and
\* reads never block writers from committing.
C3_SnapshotReadsNeverBlock == ReadsCommittedSnapshot /\ ReadsNeverBlockCommit

\* C4: for BatchUpdate calls of concurrent callers, however they are coalesced
\* into commits and re-run, the committed store is what running the fn of every
\* call that returned nil once, in commit order, gives; a call returns an error
\* only when its own fn fails on the store it last ran on, and then none of its
\* writes is committed.
C4_ConcurrentBatchesIndependent ==
    /\ Cur = Replay(hist)
    /\ \A c \in Callers :
        /\ calls[c].st = "returned" /\ calls[c].err = NoErr
           => Cardinality(Commits(c)) = 1
              /\ \A ij \in Commits(c) : hist[ij[1]][ij[2]].fn = calls[c].fn
        /\ calls[c].st = "returned" /\ calls[c].err # NoErr
           => Commits(c) = {} /\ RunFn(calls[c].base, calls[c].fn).err = calls[c].err
        /\ calls[c].st # "returned" => Commits(c) = {}

\* two calls went into one batch, the fn of one failed and that call returned
\* the error, the other returned nil with its writes committed
C4_Witness ==
    \E c, d \in Callers :
        /\ c # d
        /\ calls[c].with = calls[d].with
        /\ calls[c].st = "returned" /\ calls[c].err # NoErr
        /\ calls[d].st = "returned" /\ calls[d].err = NoErr
        /\ Commits(d) # {}
        /\ Cur # EmptyStore

\* C5: get with a non-empty chain returns an empty result and no error whenever a
\* bucket of the chain, at any level, does not exist, or the key is absent from
\* the innermost bucket.
C5_MissingIsEmpty ==
    (/\ OpenCall("get")
     /\ last.chain # <<>>
     /\ \/ ~ChainExists(last.pre, last.chain)
        \/ last.key \notin DOMAIN last.pre[last.chain])
    => (last.err = NoErr /\ IsEmpty(last.value))

\* a get found the root and the first nested bucket, not the second nested one
C5_Witness ==
    /\ OpenCall("get")
    /\ last.chain = <<"t", "n", "n">>
    /\ <<"t", "n">> \in DOMAIN last.pre
    /\ last.err = NoErr
    /\ IsEmpty(last.value)

\* C6: forEach over a chain of two or more names leaves out every matched root in
\* which a nested bucket of the chain is missing, returns no error, and reports
\* every name held by the nested chain of the other matched roots.
C6_MissingNestedSkipped ==
    (OpenCall("forEach") /\ Len(last.chain) >= 2)
    => /\ last.err = NoErr
       /\ DOMAIN last.values =
            UNION {Held(last.pre, <<r>> \o Tail(last.chain)) : r \in Scanned(last.pre, last.chain)}

\* a prefix scan met a root without the nested bucket before a root that has it
C6_Witness ==
    /\ OpenCall("forEach")
    /\ last.chain = <<"s::", "n">>
    /\ <<"s::a">> \in DOMAIN last.pre
    /\ <<"s::a", "n">> \notin DOMAIN last.pre
    /\ <<"s::b", "n">> \in DOMAIN last.pre
    /\ DOMAIN last.values = {"k", "n"}
    /\ last.err = NoErr

\* C7: every entry forEach returns carries the DataSource of a matched root that
\* holds its key, and as Content the value stored under the key in that root's
\* nested chain; when one matched root alone holds the key it is that root.
C7_ProvenanceTagged ==
    (OpenCall("forEach") /\ last.err = NoErr)
    => \A k \in DOMAIN last.values :
         \E r \in Scanned(last.pre, last.chain) :
            /\ k \in Held(last.pre, <<r>> \o Tail(last.chain))
            /\ last.values[k] = [Source |-> SourceAt(last.pre, r),
                                 Content |-> ContentAt(last.pre, <<r>> \o Tail(last.chain), k)]

\* a prefix scan returned a key of s::b tagged with the source registered for s::b,
\* while another source is registered for s::a
C7_Witness ==
    /\ OpenCall("forEach")
    /\ last.chain = <<"s::", "n">>
    /\ SourceAt(last.pre, "s::a") = SourceA
    /\ SourceAt(last.pre, "s::b") = SourceB
    /\ "k" \in DOMAIN last.values
    /\ last.values["k"] = [Source |-> SourceB, Content |-> [json |-> V1]]

\* the last of a set of root names in cursor order
LastRoot(R) == CHOOSE r \in R : \A q \in R \ {r} : BytesLess(q, r)

\* C8: a root spec with the delimiter covers exactly the root buckets that have it
\* as a prefix, one without covers the root of that very name; a key held by
\* several matched roots is reported once, with the value and the provenance of
\* the root that comes last in iteration order.
C8_PrefixScanLastWins ==
    (OpenCall("forEach") /\ last.err = NoErr)
    => \A k \in Keys :
         LET holders == {r \in Scanned(last.pre, last.chain) :
                            k \in Held(last.pre, <<r>> \o Tail(last.chain))}
         IN  IF holders = {} THEN k \notin DOMAIN last.values
             ELSE /\ k \in DOMAIN last.values
                  /\ last.values[k] =
                       [Source |-> SourceAt(last.pre, LastRoot(holders)),
                        Content |-> ContentAt(last.pre, <<LastRoot(holders)>> \o Tail(last.chain), k)]

\* both roots of the family hold key k with different values and the scan reports
\* the value of s::b with the source of s::b
C8_Witness ==
    /\ OpenCall("forEach")
    /\ last.chain = <<"s::", "n">>
    /\ ChainExists(last.pre, <<"s::a", "n">>)
    /\ ChainExists(last.pre, <<"s::b", "n">>)
    /\ "k" \in DOMAIN last.pre[<<"s::a", "n">>]
    /\ "k" \in DOMAIN last.pre[<<"s::b", "n">>]
    /\ last.pre[<<"s::a", "n">>]["k"] = [json |-> V2]
    /\ last.pre[<<"s::b", "n">>]["k"] = [json |-> V1]
    /\ last.values["k"] = [Source |-> SourceB, Content |-> [json |-> V1]]

\* a put that has nothing wrong in the tree s: a chain of non-empty names, none of
\* them a plain key of its parent, a key that is no nested bucket, a value JSON
\* can encode
ValidPut(s, op) ==
    /\ op.kind = "put"
    /\ op.chain # <<>>
    /\ \A i \in 1..Len(op.chain) : op.chain[i] # ""
    /\ op.key # ""
    /\ op.value # Unserializable
    /\ \A i \in 2..Len(op.chain) :
          SubSeq(op.chain, 1, i - 1) \in DOMAIN s
          => op.chain[i] \notin DOMAIN s[SubSeq(op.chain, 1, i - 1)]
    /\ op.key \notin SubBuckets(s, op.chain)

\* the position of the last write of fn to the key
LastWrite(fn, key) == CHOOSE i \in 1..Len(fn) : fn[i].key = key /\ \A j \in (i + 1)..Len(fn) : fn[j].key # key

\* C9: put creates its bucket chain lazily and idempotently: one or two valid
\* writes to one chain, whether the chain exists or not, succeed, leave the store
\* with the buckets it had plus one bucket per level of the chain, keep every key
\* stored before that is not written now, and store what was written.
C9_IdempotentBucketCreation ==
    (/\ OpenCall("BatchUpdate")
     /\ ~db.readOnly
     /\ \A i \in 1..Len(last.fn) : ValidPut(last.pre, last.fn[i]) /\ last.fn[i].chain = last.fn[1].chain)
    => LET c == last.fn[1].chain
           written == {last.fn[i].key : i \in 1..Len(last.fn)}
       IN  /\ last.err = NoErr
           /\ DOMAIN Cur = DOMAIN last.pre \cup Prefixes(c)
           /\ \A p \in DOMAIN last.pre : \A k \in DOMAIN last.pre[p] :
                 (p # c \/ k \notin written) => (k \in DOMAIN Cur[p] /\ Cur[p][k] = last.pre[p][k])
           /\ DOMAIN Cur[c] = written \cup (IF c \in DOMAIN last.pre THEN DOMAIN last.pre[c] ELSE {})
           /\ \A k \in written : Cur[c][k] = [json |-> last.fn[LastWrite(last.fn, k)].value]

\* two writes in one transaction to a chain of which no bucket existed: both keys
\* are in the one bucket the chain names
C9_Witness ==
    /\ OpenCall("BatchUpdate")
    /\ Len(last.fn) = 2
    /\ last.fn[1].chain = <<"s::b", "n">>
    /\ last.fn[2].chain = <<"s::b", "n">>
    /\ <<"s::b">> \notin DOMAIN last.pre
    /\ last.err = NoErr
    /\ DOMAIN Cur[<<"s::b", "n">>] = {"k", "n"}

\* C10: when the open of Init raises a fatal fault, Init removes the store file and
\* opens a new store at the same path: with the removal and the second open
\* succeeding Init returns no error, the handle is open on the directory and the
\* store has no bucket; Init returns an error only when the removal or the second
\* open fails, and what the old file held is gone once the removal succeeded.
C10_CorruptionRecovery ==
    (last.op = "Init" /\ last.env.mkdir = "ok" /\ last.env.open = "fault")
    => /\ (last.env.remove = "ok" /\ last.env.reopen = "ok")
            => /\ last.err = NoErr
               /\ db # Nil /\ db.opened /\ db.dir = last.dir
               /\ files[last.dir] = File(EmptyStore)
       /\ last.err # NoErr => (last.env.remove = "err" \/ last.env.reopen = "err")
       /\ last.env.remove = "ok" => files[last.dir] \in {Absent, File(EmptyStore)}

\* a store that held a bucket was opened with a fault and is open and empty after
C10_Witness ==
    /\ last.op = "Init"
    /\ last.env.open = "fault"
    /\ last.pre.exists
    /\ last.pre.tree # EmptyStore
    /\ last.err = NoErr
    /\ db # Nil /\ db.opened
    /\ files[last.dir] = File(EmptyStore)

\* C11: Close before any Init, and Close after a Close, returns no error and
\* changes nothing: the handle stays unopened or closed, the files stay as they
\* are.
C11_CloseIdempotent ==
    [][(last'.op = "Close" /\ (db = Nil \/ ~db.opened))
       => (last'.err = NoErr /\ db' = db /\ files' = files /\ leaked' = leaked)]_vars

\* a Close of the handle that an earlier Close had closed
C11_Witness ==
    /\ last.op = "Close"
    /\ last.pre # Nil
    /\ ~last.pre.opened
    /\ db = last.pre
    /\ files[db.dir].exists

\* C12: after any sequence of Init and Close calls at most one store is open: a
\* successful Init leaves the handle open, and no Init, a second one without a
\* Close or one for another directory included, leaves an earlier store open
\* while the handle refers to another.
C12_AtMostOneStoreOpen ==
    /\ Cardinality(leaked) + (IF db # Nil /\ db.opened THEN 1 ELSE 0) <= 1
    /\ (last.op = "Init" /\ last.err = NoErr) => (db # Nil /\ db.opened)

\* the configuration the caller of Init asked for: BoltOptions without the Enable
\* switch of this package
Passed(options) == [f \in DOMAIN BoltZeroOptions |-> options[f]]

\* C13: for every combination of option values the store that Init opens, the
\* one re-opened by the corruption recovery included, is configured with exactly
\* the values the caller passed.
C13_OptionsPassed ==
    (last.op = "Init" /\ last.err = NoErr /\ db # Nil /\ db.opened)
    => db.config = Passed(last.options)

\* an Init that is waiting for the lock of a store another process holds open
WaitsForLock ==
    /\ waiting # Nil
    /\ waiting.env.mkdir = "ok"
    /\ waiting.dir \in held

\* C14: while another process holds the file lock and never releases it, an Init
\* called with a non-zero lock timeout eventually returns an open failure, and
\* an Init with a zero timeout goes on waiting.
C14_LockWaitBounded ==
    /\ [](WaitsForLock /\ waiting.options.Timeout # 0
          => <>(waiting = Nil /\ last.op = "Init" /\ last.err # NoErr))
    /\ [][WaitsForLock /\ waiting.options.Timeout = 0 => waiting' = waiting]_vars

\* the fn gets to a put with an empty name list
PutsToNoBucket(s, fn) ==
    \E i \in 1..Len(fn) :
        /\ fn[i].kind = "put"
        /\ fn[i].chain = <<>>
        /\ RunFn(s, SubSeq(fn, 1, i - 1)).err = NoErr

\* C15: put and get with an empty name list and forEach with fewer than two names
\* return an error and no data and leave the store as it is, in every state of
\* the store: no bucket is created, no key written.
C15_ShortChainIsError ==
    /\ db # Nil => \A k \in Keys, v \in {V1, V2} :
                      put(Cur, <<>>, k, v).err # NoErr /\ put(Cur, <<>>, k, v).s = Cur
    /\ (last.op = "BatchUpdate" /\ PutsToNoBucket(last.pre, last.fn))
       => (last.err # NoErr /\ Cur = last.pre)
    /\ (last.op = "get" /\ last.chain = <<>>)
       => (last.err # NoErr /\ last.value = NilBytes /\ Cur = last.pre)
    /\ (last.op = "forEach" /\ Len(last.chain) < 2)
       => (last.err # NoErr /\ last.values = NoValues /\ (db # Nil => Cur = last.pre))

\* forEach was called with the name of a root bucket that exists and holds names
C15_Witness ==
    /\ OpenCall("forEach")
    /\ Len(last.chain) = 1
    /\ <<last.chain[1]>> \in DOMAIN last.pre
    /\ Held(last.pre, <<last.chain[1]>>) # {}
    /\ last.err # NoErr

\* the tree in the transaction when op i of fn starts
TreeBefore(s, fn, i) == RunFn(s, SubSeq(fn, 1, i - 1)).s

\* the fn gets to a put that makes its bucket chain and then cannot encode its
\* value
FailsToSerialize(s, fn) ==
    \E i \in 1..Len(fn) :
        /\ fn[i].kind = "put"
        /\ fn[i].value = Unserializable
        /\ fn[i].chain # <<>>
        /\ RunFn(s, SubSeq(fn, 1, i - 1)).err = NoErr
        /\ CreateChain(TreeBefore(s, fn, i), <<>>, fn[i].chain).err = NoErr

\* C16: when a put cannot serialize its value the enclosing transaction is
\* aborted: BatchUpdate returns the error and nothing the transaction wrote is
\* committed, the buckets that the failing put made for its chain included.
C16_SerializationFailureAborts ==
    (last.op = "BatchUpdate" /\ FailsToSerialize(last.pre, last.fn))
    => (last.err # NoErr /\ Cur = last.pre)

\* the failing put came after a write of the same fn and had made a bucket of
\* its own before it failed
C16_Witness ==
    /\ OpenCall("BatchUpdate")
    /\ FailsToSerialize(last.pre, last.fn)
    /\ \E i \in 1..Len(last.fn) :
          /\ last.fn[i].kind = "put"
          /\ last.fn[i].value = Unserializable
          /\ put(TreeBefore(last.pre, last.fn, i), last.fn[i].chain, last.fn[i].key,
                 last.fn[i].value).s # TreeBefore(last.pre, last.fn, i)
          /\ TreeBefore(last.pre, last.fn, i) # last.pre
    /\ last.err # NoErr
    /\ Cur = last.pre

\* the buckets at and below the top-level bucket name
Below(s, name) == {p \in DOMAIN s : p[1] = name}

\* C17: deleteBucket(name) on an existing top-level bucket removes it with all
\* its keys and nested buckets, so that a later get or forEach rooted at name
\* yields no data, and leaves every other top-level bucket as it was; on a
\* bucket that does not exist it returns an error and leaves the store as it was.
C17_DeleteBucket ==
    (OpenCall("deleteBucket") /\ ~db.readOnly)
    => IF <<last.name>> \in DOMAIN last.pre
       THEN /\ last.err = NoErr
            /\ Below(Cur, last.name) = {}
            /\ DOMAIN Cur = DOMAIN last.pre \ Below(last.pre, last.name)
            /\ \A p \in DOMAIN Cur : Cur[p] = last.pre[p]
            /\ \A c \in GetChains \cup ForEachChains, k \in Keys :
                  (c # <<>> /\ c[1] = last.name) =>
                      /\ IsEmpty(get(Cur, c, k).value)
                      /\ forEach(Cur, c).values = NoValues
       ELSE last.err # NoErr /\ Cur = last.pre

\* a bucket with a nested bucket that held a key was deleted and another
\* top-level bucket is still there
C17_Witness ==
    /\ OpenCall("deleteBucket")
    /\ last.err = NoErr
    /\ \E p \in Below(last.pre, last.name) : Len(p) = 2 /\ DOMAIN last.pre[p] # {}
    /\ Below(Cur, last.name) = {}
    /\ \E p \in DOMAIN Cur : DOMAIN Cur[p] # {}

\* the lookup of the data source of root r finds nothing it can use: no
\* data-source bucket, no entry for r, or an entry that is no DataSource
LookupFails(s, r) == SourceAt(s, r) = NoSource

\* the entry of r in the data-source bucket is there and cannot be decoded
SourceUnreadable(s, r) ==
    /\ <<dataSourceBucket>> \in DOMAIN s
    /\ r \in DOMAIN s[<<dataSourceBucket>>]
    /\ getDataSource(s, r).err # NoErr

\* C18: a failed DataSource lookup is not fatal to forEach: for a matched root
\* whose data-source entry is missing or unreadable every name of its nested
\* chain is returned, tagged with the empty DataSource unless a later root holds
\* the name too; no error is returned and the other matched roots are scanned.
C18_LookupFailureNotFatal ==
    (OpenCall("forEach") /\ Len(last.chain) >= 2)
    => /\ last.err = NoErr
       /\ \A r \in Scanned(last.pre, last.chain) :
            /\ Held(last.pre, <<r>> \o Tail(last.chain)) \subseteq DOMAIN last.values
            /\ LookupFails(last.pre, r) =>
                 \A k \in Held(last.pre, <<r>> \o Tail(last.chain)) :
                    (\A q \in Scanned(last.pre, last.chain) \ {r} :
                        k \in Held(last.pre, <<q>> \o Tail(last.chain)) => BytesLess(q, r))
                    => last.values[k] =
                         [Source |-> NoSource,
                          Content |-> ContentAt(last.pre, <<r>> \o Tail(last.chain), k)]

\* the entry of s::a in the data-source bucket cannot be decoded; the scan returned
\* the key of s::a with no source and went on to s::b
C18_Witness ==
    /\ OpenCall("forEach")
    /\ last.chain = <<"s::", "n">>
    /\ SourceUnreadable(last.pre, "s::a")
    /\ Scanned(last.pre, last.chain) = {"s::a", "s::b"}
    /\ "k" \in DOMAIN last.values
    /\ last.values["k"] = [Source |-> NoSource, Content |-> [json |-> V1]]
    /\ "n" \in DOMAIN last.values
    /\ last.err = NoErr

\* the advisory files of a repository: its regular files named CVE-...
IsCveFile(e) == ~e.isDir /\ HasPrefix(e.name, "CVE-")
CveFiles(repo) == {i \in 1..Len(repo) : IsCveFile(repo[i])}

\* the identifier of an advisory file: its Cve field, or its name without .yaml
IDOf(e) == IF e.advisory.Cve # "" THEN e.advisory.Cve
           ELSE IF HasSuffix(e.name, ".yaml") THEN TrimSuffix(e.name, ".yaml") ELSE e.name

\* the writes of a fn that come from the entry at place i of the repository, in
\* a run that no entry fails: the data source comes first, then three writes
\* for each advisory file
WritesOf(fn, repo, i) ==
    LET before == Cardinality({j \in CveFiles(repo) : j < i})
    IN  SubSeq(fn, 2 + 3 * before, 1 + 3 * before + (IF i \in CveFiles(repo) THEN 3 ELSE 0))

\* what the store holds for an identifier
HasAdvisory(s, id) ==
    \E p \in DOMAIN s : Len(p) = 2 /\ p[1] = PhpSecurityAdvisories /\ id \in DOMAIN s[p]
HasDetail(s, id) ==
    /\ <<"vulnerability-detail", id>> \in DOMAIN s
    /\ PhpSecurityAdvisories \in DOMAIN s[<<"vulnerability-detail", id>>]
InIndex(s, id) ==
    <<"vulnerability-id">> \in DOMAIN s /\ id \in DOMAIN s[<<"vulnerability-id">>]

\* the identifiers the store knows in any of the three places
KnownIDs(s) ==
    UNION {DOMAIN s[p] : p \in {q \in DOMAIN s : Len(q) = 2 /\ q[1] = PhpSecurityAdvisories}}
    \cup {p[2] : p \in {q \in DOMAIN s : Len(q) = 2 /\ q[1] = "vulnerability-detail"}}
    \cup (IF <<"vulnerability-id">> \in DOMAIN s THEN DOMAIN s[<<"vulnerability-id">>] ELSE {})

\* no entry of the repository fails the walk
Walkable(repo) ==
    \A i \in 1..Len(repo) :
        repo[i].err = NoErr /\ repo[i].read = NoErr /\ repo[i].yaml = NoErr

\* C19: in a run of the composer ingestion every regular file named CVE-..., and
\* no other entry, makes an advisory put, a detail put and an ID put in the one
\* batch transaction, all three with the Cve field of the record or, when that is
\* empty, the file name without .yaml; after a successful run an identifier has an
\* advisory record exactly when it has a detail record and an index entry.
C19_ThreePutsPerAdvisory ==
    last.op = "update" =>
      /\ Walkable(last.repo) =>
           /\ Len(last.fn) = 1 + 3 * Cardinality(CveFiles(last.repo))
           /\ \A i \in 1..Len(last.repo) :
                LET w == WritesOf(last.fn, last.repo, i) IN
                IF i \in CveFiles(last.repo)
                THEN /\ <<w[1].kind, w[2].kind, w[3].kind>> = <<"advisory", "detail", "vulnID">>
                     /\ \A j \in 1..3 : w[j].id = IDOf(last.repo[i])
                ELSE w = <<>>
      /\ (last.err = NoErr /\ db.opened) =>
           /\ \A i \in CveFiles(last.repo) :
                /\ HasAdvisory(Cur, IDOf(last.repo[i]))
                /\ HasDetail(Cur, IDOf(last.repo[i]))
                /\ InIndex(Cur, IDOf(last.repo[i]))
           /\ \A id \in KnownIDs(Cur) :
                /\ HasAdvisory(Cur, id) <=> HasDetail(Cur, id)
                /\ HasAdvisory(Cur, id) <=> InIndex(Cur, id)
                /\ id \notin {IDOf(last.repo[i]) : i \in CveFiles(last.repo)}
                   => id \in KnownIDs(last.pre)

\* a run over a file that is no advisory and an advisory file whose record names
\* another identifier than the file succeeded and stored that identifier
C19_Witness ==
    /\ OpenCall("update")
    /\ last.err = NoErr
    /\ \E i, j \in 1..Len(last.repo) :
          /\ ~last.repo[i].isDir /\ ~IsCveFile(last.repo[i])
          /\ IsCveFile(last.repo[j])
          /\ last.repo[j].advisory.Cve = "CVE-9"
          /\ last.repo[j].name = "CVE-2.yaml"
    /\ InIndex(Cur, "CVE-9")
    /\ ~InIndex(last.pre, "CVE-9")
    /\ ~InIndex(Cur, "CVE-2")

\* C20: reads never change the store: a get or forEach call, whatever its
\* arguments and whether it finds something, finds nothing or fails, leaves every
\* bucket and every key/value pair of every file as it was, and the handle too; a
\* read of a missing bucket chain does not create the chain.
C20_ReadsChangeNothing ==
    [][(last'.op \in {"get", "forEach"})
       => (files' = files /\ db' = db /\ leaked' = leaked)]_vars

\* a get of a chain of which the first bucket exists and the nested one does not
\* returned empty, and the nested bucket is still missing
C20_Witness ==
    /\ OpenCall("get")
    /\ last.err = NoErr
    /\ Len(last.chain) = 2
    /\ SubSeq(last.chain, 1, 1) \in DOMAIN last.pre
    /\ last.chain \notin DOMAIN last.pre
    /\ IsEmpty(last.value)
    /\ Cur = last.pre
    /\ ~ChainExists(Cur, last.chain)

====
